---- MODULE Spec2Model ----
(***************************************************************************)
(* vulkano-shaders: the reflection pass of src/vulkano-shaders/src/lib.rs. *)
(*                                                                         *)
(* A decoded module (parse::Spirv) is a sequence of instruction records.   *)
(* The resolver functions (type_from_id, name_from_id, location_decoration,*)
(* is_builtin, capability_name) are operators that scan that sequence the  *)
(* way the Rust code does; write_entry_point and the loops of reflect are  *)
(* built on them.                                                          *)
(*                                                                         *)
(* Outcomes of a Rust call:                                                *)
(*   Ok(v)        the call returned v                                      *)
(*   Panic(msg)   the call panicked; msg is the panic message, kept as the *)
(*                sequence of its literal and formatted parts              *)
(*   Unbounded    the recursion never comes back: the call stack only      *)
(*                grows (the process dies of stack exhaustion, or spins    *)
(*                forever where the compiler turned a tail call into a     *)
(*                jump); nothing is returned and no panic is raised        *)
(* Option<T> is <<>> for None and <<v>> for Some(v).                       *)
(***************************************************************************)
EXTENDS Integers, Sequences, FiniteSets, TLC

VARIABLES doc, pc, idx, output, err, call, ret

vars == <<doc, pc, idx, output, err, call, ret>>

---------------------------------------------------------------------------
(* Bounds of the explored modules.                                         *)

\* longest interface list of an entry point
MaxInterface == 2
\* most Capability instructions in one module
MaxCaps == 2
\* most Name instructions in one module
MaxNames == 2
\* most words in the payload of a Constant
MaxWords == 3

---------------------------------------------------------------------------
(* Outcomes and options.                                                   *)

Ok(v) == [tag |-> "Ok", v |-> v]

Panic(msg) == [tag |-> "Panic", msg |-> msg]

Unbounded == [tag |-> "Unbounded"]

None == <<>>

Some(v) == <<v>>

---------------------------------------------------------------------------
(* parse::Instruction, as far as lib.rs destructures it.                   *)

Capability(cap) == [op |-> "Capability", cap |-> cap]

EntryPoint(execution, id, name, interface) ==
    [op |-> "EntryPoint", execution |-> execution, id |-> id, name |-> name,
     interface |-> interface]

Variable(result_type_id, result_id, storage_class) ==
    [op |-> "Variable", result_type_id |-> result_type_id,
     result_id |-> result_id, storage_class |-> storage_class]

Decorate(target_id, decoration, params) ==
    [op |-> "Decorate", target_id |-> target_id, decoration |-> decoration,
     params |-> params]

Name(target_id, name) == [op |-> "Name", target_id |-> target_id, name |-> name]

MemberName(target_id, member, name) ==
    [op |-> "MemberName", target_id |-> target_id, member |-> member,
     name |-> name]

Constant(result_id, data) == [op |-> "Constant", result_id |-> result_id, data |-> data]

TypeVoid(result_id) == [op |-> "TypeVoid", result_id |-> result_id]

TypeBool(result_id) == [op |-> "TypeBool", result_id |-> result_id]

TypeInt(result_id, width, signedness) ==
    [op |-> "TypeInt", result_id |-> result_id, width |-> width,
     signedness |-> signedness]

TypeFloat(result_id, width) ==
    [op |-> "TypeFloat", result_id |-> result_id, width |-> width]

TypeVector(result_id, component_id, count) ==
    [op |-> "TypeVector", result_id |-> result_id, component_id |-> component_id,
     count |-> count]

TypeMatrix(result_id, column_type_id, column_count) ==
    [op |-> "TypeMatrix", result_id |-> result_id,
     column_type_id |-> column_type_id, column_count |-> column_count]

TypeImage(result_id, dim, depth, arrayed, ms, format) ==
    [op |-> "TypeImage", result_id |-> result_id, dim |-> dim, depth |-> depth,
     arrayed |-> arrayed, ms |-> ms, format |-> format]

TypeSampledImage(result_id, image_type_id) ==
    [op |-> "TypeSampledImage", result_id |-> result_id,
     image_type_id |-> image_type_id]

TypeArray(result_id, type_id, length_id) ==
    [op |-> "TypeArray", result_id |-> result_id, type_id |-> type_id,
     length_id |-> length_id]

TypeRuntimeArray(result_id, type_id) ==
    [op |-> "TypeRuntimeArray", result_id |-> result_id, type_id |-> type_id]

TypeStruct(result_id) == [op |-> "TypeStruct", result_id |-> result_id]

TypeOpaque(result_id) == [op |-> "TypeOpaque", result_id |-> result_id]

TypePointer(result_id, type_id) ==
    [op |-> "TypePointer", result_id |-> result_id, type_id |-> type_id]

\* the instruction variants type_from_id has an arm for
TypeOps ==
    {"TypeVoid", "TypeBool", "TypeInt", "TypeFloat", "TypeVector", "TypeMatrix",
     "TypeImage", "TypeSampledImage", "TypeArray", "TypeRuntimeArray",
     "TypeStruct", "TypeOpaque", "TypePointer"}

---------------------------------------------------------------------------
(* Iterator helpers: doc.instructions.iter() ... .next()                   *)

\* the positions of d, in order: a filter over them is the sequence of
\* matching instructions, in order; its head is what .next() yields
Positions(d) == [j \in 1..Len(d) |-> j]

---------------------------------------------------------------------------
(* name_from_id: the first Name instruction targeting `searched` decides;  *)
(* an empty string there, or no Name at all, gives the placeholder.        *)

\* .next().and_then(non-empty).unwrap_or("__unnamed") on the matching names
first_name(d, hits) ==
    IF hits = <<>> THEN "__unnamed"
    ELSE IF d[hits[1]].name # "" THEN d[hits[1]].name
    ELSE "__unnamed"

\* a resolver that skips empty names instead of stopping at the first name
name_from_id_skipping_empty(d, searched) ==
    first_name(d, SelectSeq(Positions(d),
                            LAMBDA j : /\ d[j].op = "Name"
                                       /\ d[j].target_id = searched
                                       /\ d[j].name # ""))

name_from_id(d, searched) ==
    first_name(d, SelectSeq(Positions(d),
                            LAMBDA j : /\ d[j].op = "Name"
                                       /\ d[j].target_id = searched))

(* member_name_from_id: as name_from_id, on the MemberName instructions    *)
(* of one member of `searched`.                                            *)

member_name_from_id(d, searched, searched_member) ==
    first_name(d, SelectSeq(Positions(d),
                            LAMBDA j : /\ d[j].op = "MemberName"
                                       /\ d[j].target_id = searched
                                       /\ d[j].member = searched_member))

(* location_decoration: params[0] of the first Location decoration on      *)
(* `searched`; indexing an empty params vector panics.                     *)

first_location(d, hits) ==
    IF hits = <<>> THEN Ok(None)
    ELSE IF d[hits[1]].params = <<>>
         THEN Panic(<<"index out of bounds: the len is 0 but the index is 0">>)
    ELSE Ok(Some(d[hits[1]].params[1]))

\* a lookup that takes the first decoration on `searched`, of any kind
location_decoration_of_any_kind(d, searched) ==
    first_location(d, SelectSeq(Positions(d),
                                LAMBDA j : /\ d[j].op = "Decorate"
                                           /\ d[j].target_id = searched))

location_decoration(d, searched) ==
    first_location(d, SelectSeq(Positions(d),
                                LAMBDA j : /\ d[j].op = "Decorate"
                                           /\ d[j].decoration = "DecorationLocation"
                                           /\ d[j].target_id = searched))

(* is_builtin: some BuiltIn decoration targets id.                         *)

is_builtin(d, id) ==
    \E i \in 1..Len(d) : /\ d[i].op = "Decorate"
                         /\ d[i].decoration = "DecorationBuiltIn"
                         /\ d[i].target_id = id

---------------------------------------------------------------------------
(* The array length: the Constant's words folded high word first into a    *)
(* u64, (a << 32) | b.  A u64 is kept as its two 32-bit halves, so that    *)
(* the shift and the truncation at 64 bits are those of the code.          *)

RECURSIVE BitOr(_, _)
BitOr(x, y) ==
    IF x = 0 THEN y
    ELSE IF y = 0 THEN x
    ELSE 2 * BitOr(x \div 2, y \div 2) + (IF x % 2 = 1 \/ y % 2 = 1 THEN 1 ELSE 0)

U64(hi, lo) == [hi |-> hi, lo |-> lo]

\* a << 32: the high half is shifted out, the low half becomes the high one
Shl32(a) == U64(a.lo, 0)

\* a | b as u64
OrWord(a, b) == U64(a.hi, BitOr(a.lo, b))

\* the fold's closure: (a << 32) | b as u64
ShlOr(a, b) == OrWord(Shl32(a), b)

\* len.iter().rev().fold(0u64, ...) from word k down to word 1
RECURSIVE FoldRev(_, _, _)
FoldRev(data, k, a) ==
    IF k = 0 THEN a ELSE FoldRev(data, k - 1, ShlOr(a, data[k]))

\* the fold without .rev(): the first word ends up in the high half
RECURSIVE FoldForward(_, _, _)
FoldForward(data, k, a) ==
    IF k > Len(data) THEN a ELSE FoldForward(data, k + 1, ShlOr(a, data[k]))

array_len_forward(data) == FoldForward(data, 1, U64(0, 0))

array_len(data) == FoldRev(data, Len(data), U64(0, 0))

\* "{}" of a u64; a value of 2^32 or more is written hi*2^32+lo
U64ToString(v) ==
    IF v.hi = 0 THEN ToString(v.lo)
    ELSE ToString(v.hi) \o "*2^32+" \o ToString(v.lo)

---------------------------------------------------------------------------
(* type_from_id: the first type instruction whose result id is `searched`  *)
(* decides; a referenced type is resolved by a recursive call.  `depth`    *)
(* is the number of frames on the call stack, each of them but the last    *)
(* stopped at an instruction: with more such frames than the module has    *)
(* instructions, the chain has come back to an instruction it is already   *)
(* resolving, and from there the Rust recursion repeats itself without     *)
(* end.                                                                    *)

First(hits) == IF hits = <<>> THEN 0 ELSE hits[1]

TypeIndex(d, searched) ==
    First(SelectSeq(Positions(d),
                    LAMBDA j : /\ d[j].op \in TypeOps
                               /\ d[j].result_id = searched))

\* format!("[{}; {}]", t, n) once the inner call has returned
Wrap(t, pre, post) == IF t.tag = "Ok" THEN Ok(pre \o t.v \o post) ELSE t

image_name(ins) ==
    (IF ins.ms THEN "Multisample" ELSE "")
    \o (IF ins.depth = Some(TRUE) THEN "Depth" ELSE "")
    \o "Texture" \o ins.dim
    \o (IF ins.arrayed THEN "Array" ELSE "")
    \o ins.format

\* the first Constant whose result id is the length id, then the fold
first_length(d, t, hits) ==
    IF hits = <<>> THEN Panic(<<"failed to find array length">>)
    ELSE Ok("[" \o t.v \o "; " \o U64ToString(array_len(d[hits[1]].data)) \o "]")

array_type(d, ins, t) ==
    IF t.tag # "Ok" THEN t
    ELSE first_length(d, t, SelectSeq(Positions(d),
                                      LAMBDA j : /\ d[j].op = "Constant"
                                                 /\ d[j].result_id = ins.length_id))

scalar_int(ins) == "i32"

scalar_float(ins) == "f32"

\* the type id an instruction's arm hands to the recursive call
inner_type_id(ins) ==
    CASE ins.op = "TypeVector" -> ins.component_id
      [] ins.op = "TypeMatrix" -> ins.column_type_id
      [] ins.op = "TypeSampledImage" -> ins.image_type_id
      [] ins.op \in {"TypeArray", "TypeRuntimeArray", "TypePointer"} -> ins.type_id

\* arms that show a pointer as a pointer
type_arm_marking_pointers(d, ins, t) ==
    CASE ins.op = "TypeVoid" -> Ok("()")
      [] ins.op = "TypeBool" -> Ok("bool")
      [] ins.op = "TypeInt" -> Ok(scalar_int(ins))
      [] ins.op = "TypeFloat" -> Ok(scalar_float(ins))
      [] ins.op = "TypeVector" -> Wrap(t, "[", "; " \o ToString(ins.count) \o "]")
      [] ins.op = "TypeMatrix" ->
            Wrap(t, "[", "; " \o ToString(ins.column_count) \o "]")
      [] ins.op = "TypeImage" -> Ok(image_name(ins))
      [] ins.op = "TypeSampledImage" -> t
      [] ins.op = "TypeArray" -> array_type(d, ins, t)
      [] ins.op = "TypeRuntimeArray" -> Wrap(t, "[", "]")
      [] ins.op = "TypeStruct" -> Ok(name_from_id(d, ins.result_id))
      [] ins.op = "TypeOpaque" -> Ok("<opaque>")
      [] ins.op = "TypePointer" -> Wrap(t, "*const ", "")

\* the arm of the match that instruction `ins` takes; t is the outcome of
\* the arm's recursive call (when the arm makes one)
type_arm(d, ins, t) ==
    CASE ins.op = "TypeVoid" -> Ok("()")
      [] ins.op = "TypeBool" -> Ok("bool")
      [] ins.op = "TypeInt" -> Ok(scalar_int(ins))
      [] ins.op = "TypeFloat" -> Ok(scalar_float(ins))
      [] ins.op = "TypeVector" -> Wrap(t, "[", "; " \o ToString(ins.count) \o "]")
      [] ins.op = "TypeMatrix" ->
            Wrap(t, "[", "; " \o ToString(ins.column_count) \o "]")
      [] ins.op = "TypeImage" -> Ok(image_name(ins))
      [] ins.op = "TypeSampledImage" -> t
      [] ins.op = "TypeArray" -> array_type(d, ins, t)
      [] ins.op = "TypeRuntimeArray" -> Wrap(t, "[", "]")
      [] ins.op = "TypeStruct" -> Ok(name_from_id(d, ins.result_id))
      [] ins.op = "TypeOpaque" -> Ok("<opaque>")
      [] ins.op = "TypePointer" -> t

RECURSIVE type_from_id_at(_, _, _)

\* a resolver that falls back to the unit type where no arm matched
type_found_lenient(d, searched, depth, i) ==
    IF i = 0 THEN Ok("()")
    ELSE type_arm(d, d[i], type_from_id_at(d, inner_type_id(d[i]), depth + 1))

\* the scan has stopped at instruction i (0: it ran off the end)
type_found(d, searched, depth, i) ==
    IF i = 0 THEN Panic(<<"Type #", ToString(searched), " not found">>)
    ELSE type_arm(d, d[i], type_from_id_at(d, inner_type_id(d[i]), depth + 1))

type_from_id_at(d, searched, depth) ==
    IF depth > Len(d) + 1 THEN Unbounded
    ELSE type_found(d, searched, depth, TypeIndex(d, searched))

type_from_id(d, searched) == type_from_id_at(d, searched, 1)

---------------------------------------------------------------------------
(* capability_name: one arm per variant of enums::Capability (the match    *)
(* has no wildcard arm, so its arms are the whole enumeration).            *)

Capabilities ==
    {"CapabilityMatrix", "CapabilityShader", "CapabilityGeometry",
     "CapabilityTessellation", "CapabilityAddresses", "CapabilityLinkage",
     "CapabilityKernel", "CapabilityVector16", "CapabilityFloat16Buffer",
     "CapabilityFloat16", "CapabilityFloat64", "CapabilityInt64",
     "CapabilityInt64Atomics", "CapabilityImageBasic",
     "CapabilityImageReadWrite", "CapabilityImageMipmap", "CapabilityPipes",
     "CapabilityGroups", "CapabilityDeviceEnqueue",
     "CapabilityLiteralSampler", "CapabilityAtomicStorage",
     "CapabilityInt16", "CapabilityTessellationPointSize",
     "CapabilityGeometryPointSize", "CapabilityImageGatherExtended",
     "CapabilityStorageImageMultisample",
     "CapabilityUniformBufferArrayDynamicIndexing",
     "CapabilitySampledImageArrayDynamicIndexing",
     "CapabilityStorageBufferArrayDynamicIndexing",
     "CapabilityStorageImageArrayDynamicIndexing", "CapabilityClipDistance",
     "CapabilityCullDistance", "CapabilityImageCubeArray",
     "CapabilitySampleRateShading", "CapabilityImageRect",
     "CapabilitySampledRect", "CapabilityGenericPointer", "CapabilityInt8",
     "CapabilityInputAttachment", "CapabilitySparseResidency",
     "CapabilityMinLod", "CapabilitySampled1D", "CapabilityImage1D",
     "CapabilitySampledCubeArray", "CapabilitySampledBuffer",
     "CapabilityImageBuffer", "CapabilityImageMSArray",
     "CapabilityStorageImageExtendedFormats", "CapabilityImageQuery",
     "CapabilityDerivativeControl", "CapabilityInterpolationFunction",
     "CapabilityTransformFeedback", "CapabilityGeometryStreams",
     "CapabilityStorageImageReadWithoutFormat",
     "CapabilityStorageImageWriteWithoutFormat", "CapabilityMultiViewport"}

capability_name(cap) ==
    CASE cap = "CapabilityMatrix" -> Ok(None)
      [] cap = "CapabilityShader" -> Ok(None)
      [] cap = "CapabilityGeometry" -> Ok(Some("geometry_shader"))
      [] cap = "CapabilityTessellation" -> Ok(Some("tessellation_shader"))
      [] cap = "CapabilityAddresses" -> Panic(<<"explicit panic">>)
      [] cap = "CapabilityLinkage" -> Panic(<<"explicit panic">>)
      [] cap = "CapabilityKernel" -> Panic(<<"explicit panic">>)
      [] cap = "CapabilityVector16" -> Panic(<<"explicit panic">>)
      [] cap = "CapabilityFloat16Buffer" -> Panic(<<"explicit panic">>)
      [] cap = "CapabilityFloat16" -> Panic(<<"explicit panic">>)
      [] cap = "CapabilityFloat64" -> Ok(Some("shader_f3264"))
      [] cap = "CapabilityInt64" -> Ok(Some("shader_int64"))
      [] cap = "CapabilityInt64Atomics" -> Panic(<<"explicit panic">>)
      [] cap = "CapabilityImageBasic" -> Panic(<<"explicit panic">>)
      [] cap = "CapabilityImageReadWrite" -> Panic(<<"explicit panic">>)
      [] cap = "CapabilityImageMipmap" -> Panic(<<"explicit panic">>)
      [] cap = "CapabilityPipes" -> Panic(<<"explicit panic">>)
      [] cap = "CapabilityGroups" -> Panic(<<"explicit panic">>)
      [] cap = "CapabilityDeviceEnqueue" -> Panic(<<"explicit panic">>)
      [] cap = "CapabilityLiteralSampler" -> Panic(<<"explicit panic">>)
      [] cap = "CapabilityAtomicStorage" -> Panic(<<"explicit panic">>)
      [] cap = "CapabilityInt16" -> Ok(Some("shader_int16"))
      [] cap = "CapabilityTessellationPointSize" -> Ok(Some("shader_tessellation_and_geometry_point_size"))
      [] cap = "CapabilityGeometryPointSize" -> Ok(Some("shader_tessellation_and_geometry_point_size"))
      [] cap = "CapabilityImageGatherExtended" -> Ok(Some("shader_image_gather_extended"))
      [] cap = "CapabilityStorageImageMultisample" -> Ok(Some("shader_storage_image_multisample"))
      [] cap = "CapabilityUniformBufferArrayDynamicIndexing" -> Ok(Some("shader_uniform_buffer_array_dynamic_indexing"))
      [] cap = "CapabilitySampledImageArrayDynamicIndexing" -> Ok(Some("shader_sampled_image_array_dynamic_indexing"))
      [] cap = "CapabilityStorageBufferArrayDynamicIndexing" -> Ok(Some("shader_storage_buffer_array_dynamic_indexing"))
      [] cap = "CapabilityStorageImageArrayDynamicIndexing" -> Ok(Some("shader_storage_image_array_dynamic_indexing"))
      [] cap = "CapabilityClipDistance" -> Ok(Some("shader_clip_distance"))
      [] cap = "CapabilityCullDistance" -> Ok(Some("shader_cull_distance"))
      [] cap = "CapabilityImageCubeArray" -> Ok(Some("image_cube_array"))
      [] cap = "CapabilitySampleRateShading" -> Ok(Some("sample_rate_shading"))
      [] cap = "CapabilityImageRect" -> Panic(<<"explicit panic">>)
      [] cap = "CapabilitySampledRect" -> Panic(<<"explicit panic">>)
      [] cap = "CapabilityGenericPointer" -> Panic(<<"explicit panic">>)
      [] cap = "CapabilityInt8" -> Panic(<<"explicit panic">>)
      [] cap = "CapabilityInputAttachment" -> Ok(None)
      [] cap = "CapabilitySparseResidency" -> Ok(Some("shader_resource_residency"))
      [] cap = "CapabilityMinLod" -> Ok(Some("shader_resource_min_lod"))
      [] cap = "CapabilitySampled1D" -> Ok(None)
      [] cap = "CapabilityImage1D" -> Ok(None)
      [] cap = "CapabilitySampledCubeArray" -> Ok(Some("image_cube_array"))
      [] cap = "CapabilitySampledBuffer" -> Ok(None)
      [] cap = "CapabilityImageBuffer" -> Ok(None)
      [] cap = "CapabilityImageMSArray" -> Ok(Some("shader_storage_image_multisample"))
      [] cap = "CapabilityStorageImageExtendedFormats" -> Ok(Some("shader_storage_image_extended_formats"))
      [] cap = "CapabilityImageQuery" -> Ok(None)
      [] cap = "CapabilityDerivativeControl" -> Ok(None)
      [] cap = "CapabilityInterpolationFunction" -> Ok(Some("sample_rate_shading"))
      [] cap = "CapabilityTransformFeedback" -> Panic(<<"explicit panic">>)
      [] cap = "CapabilityGeometryStreams" -> Panic(<<"explicit panic">>)
      [] cap = "CapabilityStorageImageReadWithoutFormat" -> Ok(Some("shader_storage_image_read_without_format"))
      [] cap = "CapabilityStorageImageWriteWithoutFormat" -> Ok(Some("shader_storage_image_write_without_format"))
      [] cap = "CapabilityMultiViewport" -> Ok(Some("multi_viewport"))

---------------------------------------------------------------------------
(* write_entry_point.                                                      *)

\* a push that takes location 0 where the Location decoration is missing
vertex_push_default_location(acc, t, name, loc) ==
    IF t.tag # "Ok" THEN t
    ELSE IF loc.tag # "Ok" THEN loc
    ELSE Ok([types |-> Append(acc.types, t.v),
             attributes |-> Append(acc.attributes,
                 <<IF loc.v = None THEN 0 ELSE loc.v[1], name>>)])

\* the vertex arm's push for a variable that is not a builtin
vertex_push(acc, t, name, loc) ==
    IF t.tag # "Ok" THEN t
    ELSE IF loc.tag # "Ok" THEN loc
    ELSE IF loc.v = None
         THEN Panic(<<"vertex attribute ", name, " is missing a location">>)
    ELSE Ok([types |-> Append(acc.types, t.v),
             attributes |-> Append(acc.attributes, <<loc.v[1], name>>)])

\* a loop body that does not skip builtins
vertex_visit_keeping_builtins(d, id, i, acc) ==
    IF /\ i.op = "Variable"
       /\ i.storage_class = "StorageClassInput"
       /\ i.result_id = id
    THEN vertex_push(acc, type_from_id(d, i.result_type_id),
                     name_from_id(d, i.result_id),
                     location_decoration(d, i.result_id))
    ELSE Ok(acc)

\* the body of the vertex arm's inner loop for instruction i: the lists
\* with i's entry pushed, or the lists as they were when no arm matches i
vertex_visit(d, id, i, acc) ==
    IF /\ i.op = "Variable"
       /\ i.storage_class = "StorageClassInput"
       /\ i.result_id = id
       /\ ~is_builtin(d, i.result_id)
    THEN vertex_push(acc, type_from_id(d, i.result_type_id),
                     name_from_id(d, i.result_id),
                     location_decoration(d, i.result_id))
    ELSE Ok(acc)

fragment_push(acc, t) ==
    IF t.tag # "Ok" THEN t
    ELSE Ok([types |-> Append(acc.types, t.v), attributes |-> acc.attributes])

\* a loop body that skips builtins as the vertex arm's does
fragment_visit_skipping_builtins(d, id, i, acc) ==
    IF /\ i.op = "Variable"
       /\ i.storage_class = "StorageClassOutput"
       /\ i.result_id = id
       /\ ~is_builtin(d, i.result_id)
    THEN fragment_push(acc, type_from_id(d, i.result_type_id))
    ELSE Ok(acc)

\* the body of the fragment arm's inner loop for instruction i
fragment_visit(d, id, i, acc) ==
    IF /\ i.op = "Variable"
       /\ i.storage_class = "StorageClassOutput"
       /\ i.result_id = id
    THEN fragment_push(acc, type_from_id(d, i.result_type_id))
    ELSE Ok(acc)

\* the inner loop's body in the arm of this execution model
visit(execution, d, id, i, acc) ==
    IF execution = "ExecutionModelVertex" THEN vertex_visit(d, id, i, acc)
    ELSE fragment_visit(d, id, i, acc)

\* for interface in interface.iter() { for i in doc.instructions.iter() {..} }
\* from interface[k] and instruction j on; a panic inside ends both loops
RECURSIVE interface_loop(_, _, _, _, _, _)

loop_on(execution, d, interface, k, j, r) ==
    IF r.tag # "Ok" THEN r
    ELSE interface_loop(execution, d, interface,
                        IF j > Len(d) THEN k + 1 ELSE k,
                        IF j > Len(d) THEN 1 ELSE j + 1, r.v)

interface_loop(execution, d, interface, k, j, acc) ==
    IF k > Len(interface) THEN Ok(acc)
    ELSE loop_on(execution, d, interface, k, j,
                 IF j > Len(d) THEN Ok(acc)
                 ELSE visit(execution, d, interface[k], d[j], acc))

\* the loops nested the other way round: instructions outside, the interface
\* list inside
vertex_loop_by_instruction(d, interface) ==
    interface_loop("ExecutionModelVertex", d,
                   SelectSeq([j \in 1..Len(d) |->
                                 IF d[j].op = "Variable" THEN d[j].result_id
                                 ELSE 0],
                             LAMBDA v : \E k \in 1..Len(interface) :
                                            interface[k] = v),
                   1, 1, [types |-> <<>>, attributes |-> <<>>])

vertex_loop(d, interface) ==
    interface_loop("ExecutionModelVertex", d, interface, 1, 1,
                   [types |-> <<>>, attributes |-> <<>>])

fragment_loop(d, interface) ==
    interface_loop("ExecutionModelFragment", d, interface, 1, 1,
                   [types |-> <<>>, attributes |-> <<>>])

NoInterface == [types |-> <<>>, attributes |-> <<>>]

\* the generated method: its name, its return type with the type list in
\* its parameters, and the call with the attribute list in its arguments
EntryPointMethod(instruction, ty, f_call, acc) ==
    [kind |-> "entry_point", ep_name |-> instruction.name, ty |-> ty,
     types |-> acc.types, f_call |-> f_call, attributes |-> acc.attributes]

\* the method around the lists the loops came back with
method_of(instruction, ty, f_call, r) ==
    IF r.tag # "Ok" THEN r
    ELSE Ok(EntryPointMethod(instruction, ty, f_call, r.v))

\* a generator that treats a kernel as it treats a compute shader
write_entry_point_with_kernels(d, instruction) ==
    CASE instruction.execution = "ExecutionModelVertex" ->
            method_of(instruction, "VertexShaderEntryPoint",
                      "vertex_shader_entry_point",
                      vertex_loop(d, instruction.interface))
      [] instruction.execution = "ExecutionModelTessellationControl" ->
            Ok(EntryPointMethod(instruction, "TessControlShaderEntryPoint", "",
                                NoInterface))
      [] instruction.execution = "ExecutionModelTessellationEvaluation" ->
            Ok(EntryPointMethod(instruction, "TessEvaluationShaderEntryPoint", "",
                                NoInterface))
      [] instruction.execution = "ExecutionModelGeometry" ->
            Ok(EntryPointMethod(instruction, "GeometryShaderEntryPoint", "",
                                NoInterface))
      [] instruction.execution = "ExecutionModelFragment" ->
            method_of(instruction, "FragmentShaderEntryPoint",
                      "fragment_shader_entry_point",
                      fragment_loop(d, instruction.interface))
      [] instruction.execution \in {"ExecutionModelGLCompute",
                                    "ExecutionModelKernel"} ->
            Ok(EntryPointMethod(instruction, "ComputeShaderEntryPoint",
                                "compute_shader_entry_point", NoInterface))

write_entry_point(d, instruction) ==
    CASE instruction.execution = "ExecutionModelVertex" ->
            method_of(instruction, "VertexShaderEntryPoint",
                      "vertex_shader_entry_point",
                      vertex_loop(d, instruction.interface))
      [] instruction.execution = "ExecutionModelTessellationControl" ->
            Ok(EntryPointMethod(instruction, "TessControlShaderEntryPoint", "",
                                NoInterface))
      [] instruction.execution = "ExecutionModelTessellationEvaluation" ->
            Ok(EntryPointMethod(instruction, "TessEvaluationShaderEntryPoint", "",
                                NoInterface))
      [] instruction.execution = "ExecutionModelGeometry" ->
            Ok(EntryPointMethod(instruction, "GeometryShaderEntryPoint", "",
                                NoInterface))
      [] instruction.execution = "ExecutionModelFragment" ->
            method_of(instruction, "FragmentShaderEntryPoint",
                      "fragment_shader_entry_point",
                      fragment_loop(d, instruction.interface))
      [] instruction.execution = "ExecutionModelGLCompute" ->
            Ok(EntryPointMethod(instruction, "ComputeShaderEntryPoint",
                                "compute_shader_entry_point", NoInterface))
      [] instruction.execution = "ExecutionModelKernel" ->
            Panic(<<"Kernels are not supported">>)

---------------------------------------------------------------------------
(* The modules explored.  Result ids are unique in every module (the       *)
(* binary format guarantees it); names and decorations may repeat.         *)

SeqsUpTo(S, n) == UNION {[1..k -> S] : k \in 0..n}

\* ids 1, 2, 3: f32, a vector of four of them, a pointer to that vector;
\* id 8: a pointer whose pointee is itself; id 9 names nothing
TypesSection ==
    <<TypeFloat(1, 32), TypeVector(2, 1, 4), TypePointer(3, 2), TypePointer(8, 8)>>

\* the two interface variables, 4 and 5, and what each is decorated with
OwnType(v) == IF v = 4 THEN 3 ELSE 1

OwnLocation(v) == IF v = 4 THEN 1 ELSE 0

StorageClasses == {"StorageClassInput", "StorageClassOutput"}

VarChoices(v, tys) ==
    [storage_class : StorageClasses, ty : tys, located : BOOLEAN,
     builtin : BOOLEAN]

VarDecorations(v, c) ==
    (IF c.builtin THEN <<Decorate(v, "DecorationBuiltIn", <<0>>)>> ELSE <<>>)
    \o (IF c.located
        THEN <<Decorate(v, "DecorationLocation", <<OwnLocation(v)>>)>>
        ELSE <<>>)

VarDecl(v, c) == Variable(c.ty, v, c.storage_class)

\* variable 4 is named "a", variable 5 has no name
ShaderModule(execution, interface, c4, c5, inOrder) ==
    <<EntryPoint(execution, 10, "main", interface), Name(4, "a")>>
    \o VarDecorations(4, c4) \o VarDecorations(5, c5)
    \o TypesSection
    \o (IF inOrder THEN <<VarDecl(4, c4), VarDecl(5, c5)>>
                   ELSE <<VarDecl(5, c5), VarDecl(4, c4)>>)

Interfaces == SeqsUpTo({4, 5}, MaxInterface)

VertexModule(d) ==
    \E interface \in Interfaces, inOrder \in BOOLEAN,
       c4 \in VarChoices(4, {OwnType(4), 8, 9}),
       c5 \in VarChoices(5, {OwnType(5), 8, 9}) :
        d = ShaderModule("ExecutionModelVertex", interface, c4, c5, inOrder)

FragmentModule(d) ==
    \E interface \in Interfaces, inOrder \in BOOLEAN,
       c4 \in VarChoices(4, {OwnType(4), 9}),
       c5 \in VarChoices(5, {OwnType(5), 9}) :
        d = ShaderModule("ExecutionModelFragment", interface, c4, c5, inOrder)

OtherExecutionModels ==
    {"ExecutionModelTessellationControl", "ExecutionModelTessellationEvaluation",
     "ExecutionModelGeometry", "ExecutionModelGLCompute", "ExecutionModelKernel"}

OtherStageModule(d) ==
    \E execution \in OtherExecutionModels, interface \in Interfaces,
       c4 \in {c \in VarChoices(4, {OwnType(4)}) : c.located /\ ~c.builtin},
       c5 \in {c \in VarChoices(5, {9}) : ~c.located /\ ~c.builtin} :
        d = ShaderModule(execution, interface, c4, c5, TRUE)

\* capabilities of each class: always available, feature flags (two of them
\* sharing one flag), unsupported
CapSample ==
    {"CapabilityShader", "CapabilityImageQuery", "CapabilityGeometry",
     "CapabilityTessellationPointSize", "CapabilityGeometryPointSize",
     "CapabilityKernel"}

CapsThenEntryPoint(caps) ==
    [k \in 1..Len(caps) |-> Capability(caps[k])]
    \o <<EntryPoint("ExecutionModelGLCompute", 10, "main", <<>>)>>

CapabilityModule(d) ==
    \/ \E n \in 0..MaxCaps : \E caps \in [1..n -> CapSample] :
        d = CapsThenEntryPoint(caps)
    \/ \E cap \in Capabilities : d = CapsThenEntryPoint(<<cap>>)

---------------------------------------------------------------------------
(* reflect, from the decoded module on.  `output` is the generated text as *)
(* the sequence of the pieces pushed onto it.                              *)

NoCall == [fn |-> "none"]

NoValue == [tag |-> "none"]

\* the first instruction at or after `from` with this op, Len(d) + 1 if none:
\* the loops of reflect pass over every other instruction without effect
Least(S, otherwise) ==
    IF S = {} THEN otherwise ELSE CHOOSE i \in S : \A j \in S : i <= j

NextIndex(d, from, op) ==
    Least({i \in from..Len(d) : d[i].op = op}, Len(d) + 1)

FeatureCheck(cap) == [kind |-> "feature_check", cap |-> cap]

Init ==
    /\ \/ VertexModule(doc)
       \/ FragmentModule(doc)
       \/ OtherStageModule(doc)
       \/ CapabilityModule(doc)
    /\ pc = "capabilities"
    /\ idx = 1
    /\ output = <<[kind |-> "header"]>>
    /\ err = <<>>
    /\ call = NoCall
    /\ ret = NoValue

\* a loop that emits the check of a feature flag once, however many
\* capabilities ask for it
OnCapability_once_per_flag(i, cap) ==
    IF cap.tag = "Panic"
    THEN /\ pc' = "panicked"
         /\ err' = cap.msg
         /\ idx' = i
         /\ UNCHANGED output
    ELSE /\ output' = IF \/ cap.v = None
                         \/ \E k \in 1..Len(output) : output[k] = FeatureCheck(cap.v[1])
                      THEN output
                      ELSE Append(output, FeatureCheck(cap.v[1]))
         /\ idx' = i + 1
         /\ UNCHANGED <<pc, err>>

\* what the loop over the capabilities does with capability_name's outcome
\* for instruction i
OnCapability(i, cap) ==
    IF cap.tag = "Panic"
    THEN /\ pc' = "panicked"
         /\ err' = cap.msg
         /\ idx' = i
         /\ UNCHANGED output
    ELSE /\ output' = IF cap.v = None THEN output
                      ELSE Append(output, FeatureCheck(cap.v[1]))
         /\ idx' = i + 1
         /\ UNCHANGED <<pc, err>>

CapabilityAt(i) ==
    /\ i <= Len(doc)
    /\ OnCapability(i, capability_name(doc[i].cap))

\* one Capability instruction of the loop over the capabilities
CapabilityStep ==
    /\ pc = "capabilities"
    /\ CapabilityAt(NextIndex(doc, idx, "Capability"))
    /\ UNCHANGED <<doc, call, ret>>

\* the loop is over: the rest of load() and module() follow
CapabilitiesDone ==
    /\ pc = "capabilities"
    /\ NextIndex(doc, idx, "Capability") > Len(doc)
    /\ pc' = "entry_points"
    /\ idx' = 1
    /\ output' = Append(output, [kind |-> "load"])
    /\ UNCHANGED <<doc, err, call, ret>>

\* what the loop over the entry points does with write_entry_point's
\* outcome for instruction i
OnEntryPoint(i, r) ==
    /\ idx' = IF r.tag = "Ok" THEN i + 1 ELSE i
    /\ pc' = CASE r.tag = "Ok" -> pc
               [] r.tag = "Panic" -> "panicked"
               [] r.tag = "Unbounded" -> "unbounded"
    /\ err' = IF r.tag = "Panic" THEN r.msg ELSE err
    /\ output' = IF r.tag = "Ok" THEN Append(output, r.v) ELSE output

EntryPointAt(i) ==
    /\ i <= Len(doc)
    /\ OnEntryPoint(i, write_entry_point(doc, doc[i]))

\* one EntryPoint instruction of the loop over the entry points
EntryPointStep ==
    /\ pc = "entry_points"
    /\ EntryPointAt(NextIndex(doc, idx, "EntryPoint"))
    /\ UNCHANGED <<doc, call, ret>>

\* structs::write_structs and descriptor_sets::write_descriptor_sets are
\* written in other files of the crate: each is taken as a function of the
\* module alone, and its text as one piece
write_structs(d) == [kind |-> "structs"]

write_descriptor_sets(d) == [kind |-> "descriptor_sets"]

\* the footer, the struct definitions and the descriptor sets, then
\* Ok(output)
Finish ==
    /\ pc = "entry_points"
    /\ NextIndex(doc, idx, "EntryPoint") > Len(doc)
    /\ pc' = "returned"
    /\ idx' = Len(doc) + 1
    /\ output' = output \o <<[kind |-> "footer"], write_structs(doc),
                             write_descriptor_sets(doc)>>
    /\ UNCHANGED <<doc, err, call, ret>>

Next == CapabilityStep \/ CapabilitiesDone \/ EntryPointStep \/ Finish

Spec == Init /\ [][Next]_vars

---------------------------------------------------------------------------
(* reflect called again and again: on a module, then on another one, then  *)
(* on the first module once more.  Every call starts from its own locals:  *)
(* reflect has no static and takes nothing but its arguments.              *)

\* how a call of reflect has ended, for its caller
Outcome ==
    CASE pc = "returned" -> Ok(output)
      [] pc = "panicked" -> Panic(err)
      [] pc = "unbounded" -> Unbounded

Ended == pc \in {"returned", "panicked", "unbounded"}

\* the modules reflected between the two calls on the first one: one that
\* is refused, one that is accepted
ModulesBetween ==
    {CapsThenEntryPoint(<<"CapabilityKernel">>),
     CapsThenEntryPoint(<<"CapabilityGeometry">>)}

RepeatInit ==
    /\ \/ VertexModule(doc)
       \/ FragmentModule(doc)
       \/ OtherStageModule(doc)
       \/ CapabilityModule(doc)
    /\ pc = "capabilities"
    /\ idx = 1
    /\ output = <<[kind |-> "header"]>>
    /\ err = <<>>
    /\ call = [fn |-> "reflect", run |-> 1, first |-> doc]
    /\ ret = NoValue

\* a reflect that appends to the text the call before it has left behind
ReflectAgain_on_old_output ==
    /\ Ended
    /\ call.run < 3
    /\ call' = [call EXCEPT !.run = @ + 1]
    /\ ret' = IF call.run = 1 THEN Outcome ELSE ret
    /\ \E between \in ModulesBetween :
        doc' = IF call.run = 1 THEN between ELSE call.first
    /\ pc' = "capabilities"
    /\ idx' = 1
    /\ output' = Append(output, [kind |-> "header"])
    /\ err' = <<>>

\* the call has ended and reflect is called once more: after the first
\* call on another module, after that on the first module
ReflectAgain ==
    /\ Ended
    /\ call.run < 3
    /\ call' = [call EXCEPT !.run = @ + 1]
    /\ ret' = IF call.run = 1 THEN Outcome ELSE ret
    /\ \E between \in ModulesBetween :
        doc' = IF call.run = 1 THEN between ELSE call.first
    /\ pc' = "capabilities"
    /\ idx' = 1
    /\ output' = <<[kind |-> "header"]>>
    /\ err' = <<>>

RepeatNext ==
    CapabilityStep \/ CapabilitiesDone \/ EntryPointStep \/ Finish \/ ReflectAgain

RepeatSpec == RepeatInit /\ [][RepeatNext]_vars

---------------------------------------------------------------------------
(* The resolver functions called on their own: a module and an id are      *)
(* drawn, and one function is applied to them.                             *)

\* ids a type instruction may refer to: 1 and 2 are types, 3 is a Constant
RefIds == 1..3

\* every shape of type instruction with result id r
TypePool(r) ==
    {TypeVoid(r), TypeBool(r), TypeStruct(r), TypeOpaque(r)}
    \cup {TypeInt(r, width, signedness) : width \in {32, 64}, signedness \in {0, 1}}
    \cup {TypeFloat(r, width) : width \in {32, 64}}
    \cup {TypeImage(r, "Dim2D", depth, FALSE, ms, "ImageFormatUnknown") :
            depth \in {None, Some(TRUE)}, ms \in BOOLEAN}
    \cup {TypeVector(r, t, 4) : t \in RefIds}
    \cup {TypeMatrix(r, t, 2) : t \in RefIds}
    \cup {TypeSampledImage(r, t) : t \in RefIds}
    \cup {TypeArray(r, t, length_id) : t \in RefIds, length_id \in {2, 3}}
    \cup {TypeRuntimeArray(r, t) : t \in RefIds}
    \cup {TypePointer(r, t) : t \in RefIds}

\* two type instructions and a one-word constant
TypeModule(d) ==
    \E t1 \in TypePool(1), t2 \in TypePool(2) : d = <<t1, t2, Constant(3, <<2>>)>>

\* the words a Constant's payload is made of
Words == {0, 1, 2147483647}

\* an array of f32 (or of a type that does not exist) whose length is a
\* Constant of up to MaxWords words
ConstantModule(d) ==
    \E n \in 0..MaxWords, t \in {2, 9} : \E data \in [1..n -> Words] :
        d = <<TypeArray(1, t, 3), TypeFloat(2, 32), Constant(3, data)>>

NamePool == {Name(target_id, name) : target_id \in {1, 2}, name \in {"", "a", "b"}}

\* a struct and up to MaxNames Name instructions, in every order
NameModule(d) ==
    \E n \in 0..MaxNames : \E names \in [1..n -> NamePool] :
        d = <<TypeStruct(1)>> \o names

\* two structs, a pointer to the first, and up to MaxNames Name
\* instructions on the structs
StructModule(d) ==
    \E n \in 0..MaxNames : \E names \in [1..n -> NamePool] :
        d = <<TypePointer(3, 1), TypeStruct(1), TypeStruct(2)>> \o names

MaxMetadata == 2

\* member names and decorations on ids 1 and 2: Location decorations with
\* no, one and two parameters, and a decoration of another kind
MetadataPool ==
    {MemberName(target_id, member, name) :
        target_id \in {1, 2}, member \in {0, 1}, name \in {"", "a", "b"}}
    \cup {Decorate(target_id, "DecorationLocation", params) :
            target_id \in {1, 2}, params \in {<<>>, <<0>>, <<1, 0>>}}
    \cup {Decorate(target_id, "DecorationBuiltIn", <<0>>) : target_id \in {1, 2}}

\* up to MaxMetadata of them, in every order
MetadataModule(d) == d \in SeqsUpTo(MetadataPool, MaxMetadata)

\* the member indices asked about
QueryMembers == 0..1

\* the ids asked about: 0 and 4 are the result id of no instruction
QueryIds == 0..4

ResolverInit ==
    /\ \/ TypeModule(doc)
       \/ ConstantModule(doc)
       \/ NameModule(doc)
       \/ StructModule(doc)
       \/ MetadataModule(doc)
    /\ pc = "idle"
    /\ idx = 0
    /\ output = <<>>
    /\ err = <<>>
    /\ call = NoCall
    /\ ret = NoValue

CallTypeFromId ==
    /\ pc = "idle"
    /\ \E searched \in QueryIds :
        /\ call' = [fn |-> "type_from_id", searched |-> searched]
        /\ ret' = type_from_id(doc, searched)
    /\ pc' = "called"
    /\ UNCHANGED <<doc, idx, output, err>>

CallNameFromId ==
    /\ pc = "idle"
    /\ \E searched \in QueryIds :
        /\ call' = [fn |-> "name_from_id", searched |-> searched]
        /\ ret' = Ok(name_from_id(doc, searched))
    /\ pc' = "called"
    /\ UNCHANGED <<doc, idx, output, err>>

CallMemberNameFromId ==
    /\ pc = "idle"
    /\ \E searched \in QueryIds, searched_member \in QueryMembers :
        /\ call' = [fn |-> "member_name_from_id", searched |-> searched,
                    searched_member |-> searched_member]
        /\ ret' = Ok(member_name_from_id(doc, searched, searched_member))
    /\ pc' = "called"
    /\ UNCHANGED <<doc, idx, output, err>>

CallLocationDecoration ==
    /\ pc = "idle"
    /\ \E searched \in QueryIds :
        /\ call' = [fn |-> "location_decoration", searched |-> searched]
        /\ ret' = location_decoration(doc, searched)
    /\ pc' = "called"
    /\ UNCHANGED <<doc, idx, output, err>>

ResolverNext ==
    \/ CallTypeFromId
    \/ CallNameFromId
    \/ CallMemberNameFromId
    \/ CallLocationDecoration

ResolverSpec == ResolverInit /\ [][ResolverNext]_vars

---------------------------------------------------------------------------
(* descriptor_set/layout_def.rs: pipeline layouts and the superset test.   *)
(* A layout is taken as the list of the descriptors it declares.           *)

MaxDescriptors == 2

\* ShaderStages::all()
all ==
    [vertex |-> TRUE, tessellation_control |-> TRUE,
     tessellation_evaluation |-> TRUE, geometry |-> TRUE, fragment |-> TRUE,
     compute |-> TRUE]

DescriptorDesc(binding, ty, array_count, stages) ==
    [binding |-> binding, ty |-> ty, array_count |-> array_count,
     stages |-> stages]

\* the blanket implementation of LayoutPossibleSuperset for every pair of
\* layouts
is_superset_of(self, other) == TRUE

\* descriptors on two bindings, of two types
DescriptorPool ==
    {DescriptorDesc(binding, ty, 1, all) :
        binding \in {0, 1}, ty \in {"Sampler", "UniformBuffer"}}

Layouts == SeqsUpTo(DescriptorPool, MaxDescriptors)

LayoutInit ==
    /\ doc = <<>>
    /\ pc = "idle"
    /\ idx = 0
    /\ output = <<>>
    /\ err = <<>>
    /\ call = NoCall
    /\ ret = NoValue

CallIsSupersetOf ==
    /\ pc = "idle"
    /\ \E self \in Layouts, other \in Layouts :
        /\ call' = [fn |-> "is_superset_of", self |-> self, other |-> other]
        /\ ret' = Ok(is_superset_of(self, other))
    /\ pc' = "called"
    /\ UNCHANGED <<doc, idx, output, err>>

LayoutNext == CallIsSupersetOf

LayoutSpec == LayoutInit /\ [][LayoutNext]_vars

---------------------------------------------------------------------------
(* What the claims speak of, read off the module itself.                   *)

Range(f) == {f[k] : k \in DOMAIN f}

Decorated(v, decoration) ==
    \E j \in 1..Len(doc) : /\ doc[j].op = "Decorate"
                           /\ doc[j].decoration = decoration
                           /\ doc[j].target_id = v

\* the Location values decorating v
LocationsOf(v) ==
    {doc[j].params[1] : j \in {j \in 1..Len(doc) :
        /\ doc[j].op = "Decorate"
        /\ doc[j].decoration = "DecorationLocation"
        /\ doc[j].target_id = v}}

\* the Variable instruction whose result id is v (result ids are unique)
VariableOf(v) ==
    doc[CHOOSE j \in 1..Len(doc) : doc[j].op = "Variable" /\ doc[j].result_id = v]

\* the ids of the Input-storage-class variables that are not builtin
UserInputs ==
    {doc[j].result_id : j \in {j \in 1..Len(doc) :
        /\ doc[j].op = "Variable"
        /\ doc[j].storage_class = "StorageClassInput"
        /\ ~Decorated(doc[j].result_id, "DecorationBuiltIn")}}

\* the entries of entry point i's interface list that are such variables,
\* in the order of the list
ListedInputs(i) == SelectSeq(doc[i].interface, LAMBDA v : v \in UserInputs)

VertexEntryPoints ==
    {i \in 1..Len(doc) : /\ doc[i].op = "EntryPoint"
                         /\ doc[i].execution = "ExecutionModelVertex"}

\* reflect is in, or past, its loop over the entry points
InEntryPointLoop ==
    \/ pc \in {"entry_points", "returned"}
    \/ pc \in {"panicked", "unbounded"} /\ doc[idx].op = "EntryPoint"

\* write_entry_point has returned the method of entry point i
Produced(i) == InEntryPointLoop /\ idx > i

\* write_entry_point did not return for entry point i
Failed(i) == pc \in {"panicked", "unbounded"} /\ idx = i

Methods == SelectSeq(output, LAMBDA o : o.kind = "entry_point")

\* the method written for entry point i, once Produced(i)
MethodOf(i) ==
    Methods[Cardinality({j \in 1..i : doc[j].op = "EntryPoint"})]

Resolves(type_id) == type_from_id(doc, type_id).tag = "Ok"

DescriptionOf(type_id) == type_from_id(doc, type_id).v

---------------------------------------------------------------------------
(* C1, as claimed: for a vertex entry point whose interface list           *)
(* references N distinct non-builtin Input variables, each carrying a      *)
(* Location, write_entry_point produces exactly N input types and N        *)
(* (location, name) attributes, the k-th of each belonging to the same     *)
(* variable, with that variable's Location and the description of its      *)
(* result type.                                                            *)

AllLocated(i) == \A v \in Range(ListedInputs(i)) : LocationsOf(v) # {}

\* the k-th type and the k-th attribute of m are those of one listed variable
PairedEntries(i, m) ==
    \A k \in 1..Len(m.attributes) :
        \E v \in Range(ListedInputs(i)) :
            /\ m.attributes[k][1] \in LocationsOf(v)
            /\ Resolves(VariableOf(v).result_type_id)
            /\ m.types[k] = DescriptionOf(VariableOf(v).result_type_id)

C1_AsClaimed ==
    \A i \in VertexEntryPoints :
        AllLocated(i) /\ (Produced(i) \/ Failed(i)) =>
            /\ Produced(i)
            /\ Len(MethodOf(i).types) = Cardinality(Range(ListedInputs(i)))
            /\ Len(MethodOf(i).attributes) = Cardinality(Range(ListedInputs(i)))
            /\ PairedEntries(i, MethodOf(i))

(* C1, amended: when moreover type_from_id returns a description for the   *)
(* result type of each of those variables, write_entry_point produces one  *)
(* input type and one (location, name) attribute per entry of the          *)
(* interface list that names such a variable (exactly N of each when no    *)
(* id is listed twice), the k-th type and the k-th attribute belonging to  *)
(* the same variable, with its Location and its type's description.        *)

AllResolve(i) ==
    \A v \in Range(ListedInputs(i)) : Resolves(VariableOf(v).result_type_id)

NoRepeat(seq) == Cardinality(Range(seq)) = Len(seq)

C1_InputsPerListedVariable ==
    \A i \in VertexEntryPoints :
        AllLocated(i) /\ AllResolve(i) /\ (Produced(i) \/ Failed(i)) =>
            /\ Produced(i)
            /\ Len(MethodOf(i).types) = Len(ListedInputs(i))
            /\ Len(MethodOf(i).attributes) = Len(ListedInputs(i))
            /\ NoRepeat(doc[i].interface) =>
                    Len(MethodOf(i).types) = Cardinality(Range(ListedInputs(i)))
            /\ PairedEntries(i, MethodOf(i))

\* a vertex entry point listing two located, resolvable inputs has its two
\* types and two attributes
C1_Witness ==
    /\ pc = "returned"
    /\ \E i \in VertexEntryPoints :
        /\ Cardinality(Range(ListedInputs(i))) = 2
        /\ AllLocated(i)
        /\ MethodOf(i).types = <<"f32", "[f32; 4]">>
        /\ MethodOf(i).attributes = <<<<0, "__unnamed">>, <<1, "a">>>>

---------------------------------------------------------------------------
(* C2, as claimed: for a vertex entry point, if any interface variable     *)
(* with storage class Input that is not a builtin has no Location,         *)
(* extraction fails with a fatal error whose message names that variable   *)
(* and no interface description is produced; a builtin input variable      *)
(* without Location never triggers this failure.  (A call that never       *)
(* returns counts as failed here, and the message may name any one of the  *)
(* variables without Location.)                                            *)

\* the listed user inputs that carry no Location, in the order of the list
Unlocated(i) == SelectSeq(ListedInputs(i), LAMBDA v : LocationsOf(v) = {})

MissingLocation(v) ==
    <<"vertex attribute ", name_from_id(doc, v), " is missing a location">>

IsMissingLocation(msg) == Len(msg) = 3 /\ msg[1] = "vertex attribute "

C2_AsClaimed ==
    \A i \in VertexEntryPoints :
        /\ Unlocated(i) # <<>> /\ (Produced(i) \/ Failed(i)) =>
                /\ Failed(i)
                /\ pc = "panicked" =>
                        \E v \in Range(Unlocated(i)) : err = MissingLocation(v)
        /\ Failed(i) /\ pc = "panicked" /\ IsMissingLocation(err) =>
                Unlocated(i) # <<>>

(* C2, amended: in that case write_entry_point does not return, and no     *)
(* interface description is produced for the entry point.  The failure is  *)
(* the missing-location panic, whose message carries name_from_id of the   *)
(* first such variable in the order of the interface list, unless          *)
(* type_from_id fails for that variable or for a user input listed before  *)
(* it: then that failure (a "Type # not found" panic, or a recursion that  *)
(* never returns) is the outcome.  A builtin input variable without        *)
(* Location never triggers the missing-location failure.                   *)

\* the listed user inputs up to and including the first one without Location
UpToFirstUnlocated(i) ==
    {ListedInputs(i)[k] : k \in {k \in 1..Len(ListedInputs(i)) :
        \A h \in 1..(k - 1) : LocationsOf(ListedInputs(i)[h]) # {}}}

C2_MissingLocationIsFatal ==
    \A i \in VertexEntryPoints :
        /\ Unlocated(i) # <<>> /\ (Produced(i) \/ Failed(i)) =>
                /\ Failed(i)
                /\ pc = "panicked" /\ IsMissingLocation(err) =>
                        err = MissingLocation(Unlocated(i)[1])
                /\ (\A v \in UpToFirstUnlocated(i) :
                        Resolves(VariableOf(v).result_type_id)) =>
                        pc = "panicked" /\ err = MissingLocation(Unlocated(i)[1])
        /\ Failed(i) /\ pc = "panicked" /\ IsMissingLocation(err) =>
                Unlocated(i) # <<>>

\* the second listed variable has no Location, the first has one and a
\* builtin without Location is not listed here: the panic names the second
C2_Witness ==
    /\ pc = "panicked"
    /\ err = <<"vertex attribute ", "a", " is missing a location">>
    /\ \E i \in VertexEntryPoints :
        /\ Failed(i)
        /\ doc[i].interface = <<5, 4>>
        /\ Unlocated(i) = <<4>>

---------------------------------------------------------------------------
(* C3, as claimed: the vertex-stage entries are ordered by the position    *)
(* of the Variable instructions in the instruction sequence, not by the    *)
(* order of the ids in the interface list: of two extracted variables, a   *)
(* precedes b in the output iff a's Variable instruction precedes b's.     *)

\* the (location, name) attribute and the type of each variable of a list
AttributesOf(vs) ==
    [k \in 1..Len(vs) |->
        <<CHOOSE l \in LocationsOf(vs[k]) : TRUE, name_from_id(doc, vs[k])>>]

TypesOf(vs) ==
    [k \in 1..Len(vs) |-> DescriptionOf(VariableOf(vs[k]).result_type_id)]

\* the listed user inputs in the order of their Variable instructions
InInstructionOrder(i) ==
    SelectSeq([j \in 1..Len(doc) |->
                  IF doc[j].op = "Variable" THEN doc[j].result_id ELSE 0],
              LAMBDA v : v \in Range(ListedInputs(i)))

C3_AsClaimed ==
    \A i \in VertexEntryPoints :
        Produced(i) /\ NoRepeat(doc[i].interface) =>
            /\ MethodOf(i).attributes = AttributesOf(InInstructionOrder(i))
            /\ MethodOf(i).types = TypesOf(InInstructionOrder(i))

(* C3, amended: the vertex-stage entries are ordered by the position of    *)
(* the ids in the entry point's interface list, not by Location value and  *)
(* not by the position of the Variable instructions: of two extracted      *)
(* variables, a precedes b in the output iff a's id precedes b's in the    *)
(* interface list.                                                         *)

C3_InterfaceListOrder ==
    \A i \in VertexEntryPoints :
        Produced(i) =>
            /\ MethodOf(i).attributes = AttributesOf(ListedInputs(i))
            /\ MethodOf(i).types = TypesOf(ListedInputs(i))

\* variable 5 is declared first and has the lower Location, variable 4 is
\* listed first: the output starts with variable 4
C3_Witness ==
    /\ pc = "returned"
    /\ \E i \in VertexEntryPoints :
        /\ doc[i].interface = <<4, 5>>
        /\ InInstructionOrder(i) = <<5, 4>>
        /\ MethodOf(i).attributes = <<<<1, "a">>, <<0, "__unnamed">>>>

---------------------------------------------------------------------------
(* The type instructions of the module, read off the module itself.        *)

TypeIndices == {j \in 1..Len(doc) : doc[j].op \in TypeOps}

TypeIds == {doc[j].result_id : j \in TypeIndices}

\* the type instruction whose result id is `id` (result ids are unique)
TypeOf(id) == doc[CHOOSE j \in TypeIndices : doc[j].result_id = id]

\* the type ids a type instruction refers to
RefsOf(ins) ==
    CASE ins.op = "TypeVector" -> {ins.component_id}
      [] ins.op = "TypeMatrix" -> {ins.column_type_id}
      [] ins.op = "TypeSampledImage" -> {ins.image_type_id}
      [] ins.op \in {"TypeArray", "TypeRuntimeArray", "TypePointer"} -> {ins.type_id}
      [] OTHER -> {}

ConstantIndices(id) ==
    {j \in 1..Len(doc) : doc[j].op = "Constant" /\ doc[j].result_id = id}

\* every type a declaration refers to is declared, no declaration refers
\* to itself through others, and every array length is a Constant
WellFormedTypes ==
    /\ \E rank \in [TypeIndices -> 1..Cardinality(TypeIndices)] :
        \A j \in TypeIndices : \A r \in RefsOf(doc[j]) :
            \E h \in TypeIndices : doc[h].result_id = r /\ rank[h] < rank[j]
    /\ \A j \in TypeIndices :
        doc[j].op = "TypeArray" => ConstantIndices(doc[j].length_id) # {}

Called(fn) == pc = "called" /\ call.fn = fn

---------------------------------------------------------------------------
(* C4: in a module of well-formed type declarations type_from_id returns   *)
(* a description for every id that is the result id of a type              *)
(* instruction; for an id that is not (in any module) it panics with       *)
(* "Type #id not found".                                                   *)

C4_TypeIdsResolve ==
    Called("type_from_id") =>
        /\ call.searched \notin TypeIds =>
                ret = Panic(<<"Type #", ToString(call.searched), " not found">>)
        /\ WellFormedTypes /\ call.searched \in TypeIds => ret.tag = "Ok"

\* an array of f32 with its length constant resolves; so asked, the
\* constant's own id does not
C4_Witness ==
    /\ Called("type_from_id")
    /\ WellFormedTypes
    /\ doc[1] = TypeArray(1, 2, 3)
    /\ call.searched = 1
    /\ ret = Ok("[f32; 2]")

---------------------------------------------------------------------------
(* C5: type_from_id comes back on every module and every id, cyclic type   *)
(* graphs included: it returns or it panics.                               *)

C5_Terminates == Called("type_from_id") => ret.tag \in {"Ok", "Panic"}

---------------------------------------------------------------------------
(* C6: two TypeInt declarations of different width or signedness, or two   *)
(* TypeFloat declarations of different width, resolve to different         *)
(* descriptions.                                                           *)

SameScalar(a, b) ==
    /\ a.width = b.width
    /\ a.op = "TypeInt" => a.signedness = b.signedness

C6_WidthCarried ==
    Called("type_from_id") =>
        \A j \in TypeIndices, h \in TypeIndices :
            /\ doc[j].op \in {"TypeInt", "TypeFloat"}
            /\ doc[h].op = doc[j].op
            /\ doc[j].result_id = call.searched
            /\ ~SameScalar(doc[j], doc[h])
            => ret # type_from_id(doc, doc[h].result_id)

---------------------------------------------------------------------------
(* C7, as claimed: for a TypeArray whose length id is the result id of a   *)
(* Constant with payload [w0, w1, ...] the resolved length is the u64      *)
(* with w0 in its low and w1 in its high 32 bits (w0 alone for one word);  *)
(* with no such Constant, resolution fails with "failed to find array      *)
(* length".  (Calls that never return are left aside here.)                *)

\* the u64 made of the first two words of a payload
ExpectedLength(data) ==
    U64ToString(U64(IF Len(data) >= 2 THEN data[2] ELSE 0, data[1]))

LengthPayload(ins) ==
    doc[CHOOSE j \in ConstantIndices(ins.length_id) : TRUE].data

ArrayOf(t, len) == Ok("[" \o t \o "; " \o len \o "]")

ArrayAsked ==
    /\ Called("type_from_id")
    /\ call.searched \in TypeIds
    /\ TypeOf(call.searched).op = "TypeArray"

C7_AsClaimed ==
    ArrayAsked /\ ret.tag # "Unbounded" =>
        IF ConstantIndices(TypeOf(call.searched).length_id) = {}
        THEN ret = Panic(<<"failed to find array length">>)
        ELSE Len(LengthPayload(TypeOf(call.searched))) >= 1 =>
                /\ Resolves(TypeOf(call.searched).type_id)
                /\ ret = ArrayOf(DescriptionOf(TypeOf(call.searched).type_id),
                                 ExpectedLength(LengthPayload(TypeOf(call.searched))))

(* C7, amended: the same, provided type_from_id returns a description for  *)
(* the array's element type; when it does not, the array's resolution      *)
(* fails the way the element type's does ("Type # not found", or a         *)
(* recursion that never returns) before the length is looked up.           *)

C7_ArrayLength ==
    ArrayAsked =>
        IF ~Resolves(TypeOf(call.searched).type_id)
        THEN ret = type_from_id(doc, TypeOf(call.searched).type_id)
        ELSE IF ConstantIndices(TypeOf(call.searched).length_id) = {}
        THEN ret = Panic(<<"failed to find array length">>)
        ELSE Len(LengthPayload(TypeOf(call.searched))) >= 1 =>
                ret = ArrayOf(DescriptionOf(TypeOf(call.searched).type_id),
                              ExpectedLength(LengthPayload(TypeOf(call.searched))))

\* three words: the third is shifted out, the second is the high half
C7_Witness ==
    /\ ArrayAsked
    /\ ConstantIndices(TypeOf(call.searched).length_id) # {}
    /\ LengthPayload(TypeOf(call.searched)) = <<2147483647, 1, 1>>
    /\ ret = Ok("[f32; 1*2^32+2147483647]")

---------------------------------------------------------------------------
(* C8, as claimed: name_from_id never fails; it returns the Name string    *)
(* attached to the id whenever the module has a Name instruction           *)
(* targeting the id with a non-empty string, and "__unnamed" otherwise.    *)

NameIndices(id) ==
    {j \in 1..Len(doc) : doc[j].op = "Name" /\ doc[j].target_id = id}

NonEmptyNames(id) == {doc[j].name : j \in NameIndices(id)} \ {""}

C8_AsClaimed ==
    Called("name_from_id") =>
        /\ ret.tag = "Ok"
        /\ IF NonEmptyNames(call.searched) # {}
           THEN ret.v \in NonEmptyNames(call.searched)
           ELSE ret.v = "__unnamed"

(* C8, amended: name_from_id never fails; it returns the string of the     *)
(* first Name instruction targeting the id when that string is not empty,  *)
(* and "__unnamed" otherwise (no Name instruction targets the id, or the   *)
(* first that does has an empty string).                                   *)

FirstNameOf(id) == doc[Least(NameIndices(id), 0)].name

C8_FirstNameDecides ==
    Called("name_from_id") =>
        /\ ret.tag = "Ok"
        /\ IF NameIndices(call.searched) # {} /\ FirstNameOf(call.searched) # ""
           THEN ret.v = FirstNameOf(call.searched)
           ELSE ret.v = "__unnamed"

\* two names on one id: the first one is returned
C8_Witness ==
    /\ Called("name_from_id")
    /\ call.searched = 1
    /\ doc = <<TypeStruct(1), Name(1, "b"), Name(1, "a")>>
    /\ ret = Ok("b")

---------------------------------------------------------------------------
(* C9: a module declaring an unsupported capability aborts generation      *)
(* with an error that names the offending capability tag; reflect never    *)
(* returns output for such a module.                                       *)

\* the loop over the capabilities has stopped at instruction idx
StoppedAtCapability ==
    /\ pc = "panicked"
    /\ idx <= Len(doc)
    /\ doc[idx].op = "Capability"

Unsupported(cap) == capability_name(cap).tag = "Panic"

C9_ErrorNamesCapability ==
    /\ StoppedAtCapability => \E k \in 1..Len(err) : err[k] = doc[idx].cap
    /\ pc = "returned" =>
        \A j \in 1..Len(doc) :
            doc[j].op = "Capability" => ~Unsupported(doc[j].cap)

---------------------------------------------------------------------------
(* C10: reflect takes the Capability instructions in source order and      *)
(* emits exactly one device-feature check for each one that maps to a      *)
(* feature flag, in that order, and none for the always-available          *)
(* capabilities (Matrix, Shader, InputAttachment, Sampled1D, Image1D,      *)
(* SampledBuffer, ImageBuffer, ImageQuery, DerivativeControl);             *)
(* capability_name puts every tag in exactly one of the three classes.     *)

AlwaysAvailable ==
    {"CapabilityMatrix", "CapabilityShader", "CapabilityInputAttachment",
     "CapabilitySampled1D", "CapabilityImage1D", "CapabilitySampledBuffer",
     "CapabilityImageBuffer", "CapabilityImageQuery",
     "CapabilityDerivativeControl"}

\* the flags checked by the generated code so far, in the order of the text
ChecksEmitted ==
    [k \in 1..Len(SelectSeq(output, LAMBDA piece : piece.kind = "feature_check"))
        |-> SelectSeq(output, LAMBDA piece : piece.kind = "feature_check")[k].cap]

\* the Capability instructions the loop has been through
CapabilitiesPassed ==
    SelectSeq([j \in 1..Len(doc) |-> j],
              LAMBDA j : /\ doc[j].op = "Capability"
                         /\ \/ pc \in {"entry_points", "returned", "unbounded"}
                            \/ pc = "panicked" /\ ~StoppedAtCapability
                            \/ j < idx)

FlaggedPassed ==
    SelectSeq(CapabilitiesPassed, LAMBDA j : doc[j].cap \notin AlwaysAvailable)

C10_OneCheckPerFlaggedCapability ==
    /\ \A cap \in Capabilities :
        /\ capability_name(cap).tag \in {"Ok", "Panic"}
        /\ cap \in AlwaysAvailable <=> capability_name(cap) = Ok(None)
    /\ Len(ChecksEmitted) = Len(FlaggedPassed)
    /\ \A k \in 1..Len(FlaggedPassed) :
        Some(ChecksEmitted[k]) = capability_name(doc[FlaggedPassed[k]].cap).v

\* two capabilities asking for the same flag: two checks
C10_Witness ==
    /\ pc = "entry_points"
    /\ Len(doc) = 3
    /\ doc[1].cap = "CapabilityTessellationPointSize"
    /\ doc[2].cap = "CapabilityGeometryPointSize"
    /\ ChecksEmitted = <<"shader_tessellation_and_geometry_point_size",
                         "shader_tessellation_and_geometry_point_size">>

---------------------------------------------------------------------------
(* C11: a Kernel entry point makes extraction fail with a fatal            *)
(* unsupported-execution-model error ("Kernels are not supported") and     *)
(* never yields a method; a tessellation-control, tessellation-evaluation, *)
(* geometry or compute entry point always yields a method that records     *)
(* the stage and the entry point's name and enumerates no input or         *)
(* output, whatever its interface list references.                         *)

EntryPointIndices == {i \in 1..Len(doc) : doc[i].op = "EntryPoint"}

\* the stage each of the four execution models is recorded as
StageOf(execution) ==
    CASE execution = "ExecutionModelTessellationControl" -> "TessControlShaderEntryPoint"
      [] execution = "ExecutionModelTessellationEvaluation" -> "TessEvaluationShaderEntryPoint"
      [] execution = "ExecutionModelGeometry" -> "GeometryShaderEntryPoint"
      [] execution = "ExecutionModelGLCompute" -> "ComputeShaderEntryPoint"

Unenumerated ==
    {"ExecutionModelTessellationControl", "ExecutionModelTessellationEvaluation",
     "ExecutionModelGeometry", "ExecutionModelGLCompute"}

C11_KernelIsFatal ==
    \A i \in EntryPointIndices :
        /\ doc[i].execution = "ExecutionModelKernel" =>
            /\ ~Produced(i)
            /\ Failed(i) => /\ pc = "panicked"
                            /\ err = <<"Kernels are not supported">>
                            /\ Len(Methods) = Cardinality({j \in EntryPointIndices : j < i})
        /\ doc[i].execution \in Unenumerated =>
            /\ ~Failed(i)
            /\ Produced(i) =>
                /\ MethodOf(i).ep_name = doc[i].name
                /\ MethodOf(i).ty = StageOf(doc[i].execution)
                /\ MethodOf(i).types = <<>>
                /\ MethodOf(i).attributes = <<>>

\* a kernel whose interface list names two variables has been refused
C11_Witness ==
    \E i \in EntryPointIndices :
        /\ doc[i].execution = "ExecutionModelKernel"
        /\ doc[i].interface = <<4, 5>>
        /\ Failed(i)
        /\ err = <<"Kernels are not supported">>

---------------------------------------------------------------------------
(* C12: every failure of the reflection pass reaches the caller of         *)
(* reflect as an Err value of the Error type; reflect never ends in a      *)
(* panic instead of returning.  (Recursion without end is left aside       *)
(* here.)                                                                  *)

C12_FailuresAreReturned == pc # "panicked"

---------------------------------------------------------------------------
(* C13: for a vertex entry point the builtin Input variables are left out  *)
(* of the extracted interface; for a fragment entry point every listed     *)
(* variable of storage class Output contributes the description of its     *)
(* type, builtin or not, with a Location or without; is_builtin(id) is     *)
(* true iff some Decorate instruction with decoration BuiltIn targets id.  *)

FragmentEntryPoints ==
    {i \in 1..Len(doc) : /\ doc[i].op = "EntryPoint"
                         /\ doc[i].execution = "ExecutionModelFragment"}

Outputs ==
    {doc[j].result_id : j \in {j \in 1..Len(doc) :
        /\ doc[j].op = "Variable"
        /\ doc[j].storage_class = "StorageClassOutput"}}

\* the entries of entry point i's interface list that are Output variables
ListedOutputs(i) == SelectSeq(doc[i].interface, LAMBDA v : v \in Outputs)

DescriptionsOf(vs) ==
    [k \in 1..Len(vs) |-> DescriptionOf(VariableOf(vs[k]).result_type_id)]

\* every id the module mentions as a variable or a decoration target, and
\* one it does not mention
IdsAsked == 0..10

C13_BuiltinsFilteredForVertexOnly ==
    /\ \A i \in VertexEntryPoints :
        Produced(i) => MethodOf(i).types = DescriptionsOf(ListedInputs(i))
    /\ \A i \in FragmentEntryPoints :
        /\ Produced(i) => MethodOf(i).types = DescriptionsOf(ListedOutputs(i))
        /\ Failed(i) =>
            \E v \in Range(ListedOutputs(i)) :
                ~Resolves(VariableOf(v).result_type_id)
    /\ \A id \in IdsAsked :
        is_builtin(doc, id) <=> Decorated(id, "DecorationBuiltIn")

\* a fragment entry point whose only listed output is a builtin without
\* Location, and the output is there
C13_Witness ==
    \E i \in FragmentEntryPoints :
        /\ Produced(i)
        /\ doc[i].interface = <<5>>
        /\ 5 \in Outputs
        /\ Decorated(5, "DecorationBuiltIn")
        /\ ~Decorated(5, "DecorationLocation")
        /\ MethodOf(i).types = <<"f32">>

---------------------------------------------------------------------------
(* C14: is_superset_of(self, other) returns true only if every descriptor  *)
(* of `other` is also in `self` with an identical definition; where        *)
(* `other` has a descriptor that `self` lacks or defines differently it    *)
(* returns false.                                                          *)

C14_SupersetOnlyIfContained ==
    pc = "called" /\ call.fn = "is_superset_of" =>
        (ret.v => Range(call.other) \subseteq Range(call.self))

---------------------------------------------------------------------------
(* C15: reflect is deterministic and stateless: called again on the same   *)
(* module it ends as it ended the first time (the same text, or the same   *)
(* failure), whatever module was reflected in between.                     *)

---------------------------------------------------------------------------
(* C16: type_from_id looks through pointers and combined sampler-images    *)
(* and resolves a struct by its name: a TypePointer resolves as its        *)
(* pointee does, a TypeSampledImage as its image type does, a TypeStruct   *)
(* to name_from_id of its own id, so an unnamed struct to "__unnamed" and  *)
(* two structs of the same name to the same description.                   *)

StructIds == {doc[j].result_id : j \in {j \in TypeIndices : doc[j].op = "TypeStruct"}}

C16_Transparent ==
    Called("type_from_id") /\ call.searched \in TypeIds =>
        /\ TypeOf(call.searched).op = "TypePointer" =>
                ret = type_from_id(doc, TypeOf(call.searched).type_id)
        /\ TypeOf(call.searched).op = "TypeSampledImage" =>
                ret = type_from_id(doc, TypeOf(call.searched).image_type_id)
        /\ TypeOf(call.searched).op = "TypeStruct" =>
                /\ ret = Ok(name_from_id(doc, call.searched))
                /\ NameIndices(call.searched) = {} => ret = Ok("__unnamed")
                /\ \A other \in StructIds :
                    name_from_id(doc, other) = name_from_id(doc, call.searched)
                    => type_from_id(doc, other) = ret

\* a pointer to a struct named as another struct is: all three resolve to
\* the name
C16_Witness ==
    /\ Called("type_from_id")
    /\ doc = <<TypePointer(3, 1), TypeStruct(1), TypeStruct(2),
               Name(1, "a"), Name(2, "a")>>
    /\ call.searched = 3
    /\ ret = Ok("a")
    /\ type_from_id(doc, 2) = ret

---------------------------------------------------------------------------
(* C17: the metadata lookups are scoped to their key and take the first    *)
(* match in instruction order.  member_name_from_id(s, m) never fails and  *)
(* returns the string of the first MemberName instruction on member m of   *)
(* s, or "__unnamed" (no such instruction, or its string is empty);        *)
(* location_decoration(id) returns the first parameter of the first        *)
(* Location decoration on id (when it has one), and None iff no Location   *)
(* decoration targets id; instructions of other kinds or on other keys     *)
(* change neither result.                                                  *)

MemberNameIndices(s, m) ==
    {j \in 1..Len(doc) : /\ doc[j].op = "MemberName"
                         /\ doc[j].target_id = s
                         /\ doc[j].member = m}

LocationIndices(id) ==
    {j \in 1..Len(doc) : /\ doc[j].op = "Decorate"
                         /\ doc[j].decoration = "DecorationLocation"
                         /\ doc[j].target_id = id}

\* the module with nothing but the instructions at these positions
Only(indices) == SelectSeq(Positions(doc), LAMBDA j : j \in indices)

Kept(indices) == [k \in 1..Len(Only(indices)) |-> doc[Only(indices)[k]]]

FirstMemberName(s, m) == doc[Least(MemberNameIndices(s, m), 0)].name

FirstLocation(id) == doc[Least(LocationIndices(id), 0)].params

C17_ScopedFirstMatch ==
    /\ Called("member_name_from_id") =>
        /\ ret.tag = "Ok"
        /\ IF /\ MemberNameIndices(call.searched, call.searched_member) # {}
              /\ FirstMemberName(call.searched, call.searched_member) # ""
           THEN ret.v = FirstMemberName(call.searched, call.searched_member)
           ELSE ret.v = "__unnamed"
        /\ ret.v = member_name_from_id(
                       Kept(MemberNameIndices(call.searched, call.searched_member)),
                       call.searched, call.searched_member)
    /\ Called("location_decoration") =>
        /\ ret = Ok(None) <=> LocationIndices(call.searched) = {}
        /\ LocationIndices(call.searched) # {} /\ FirstLocation(call.searched) # <<>>
            => ret = Ok(Some(FirstLocation(call.searched)[1]))
        /\ ret = location_decoration(Kept(LocationIndices(call.searched)),
                                     call.searched)

\* two Location decorations on one id: the first parameter of the first
C17_Witness ==
    /\ Called("location_decoration")
    /\ call.searched = 1
    /\ doc = <<Decorate(1, "DecorationLocation", <<1, 0>>),
               Decorate(1, "DecorationLocation", <<0>>)>>
    /\ ret = Ok(Some(1))

====
